---- MODULE Spec2Model ----
(***************************************************************************)
(* pyscanprev: the enable_scan decorator (a rewrite of the instruction     *)
(* stream of list/set comprehensions and generator expressions) and the    *)
(* scan generator function.                                                *)
(*                                                                         *)
(* Code units are modelled in their two forms: the compiled form           *)
(* (types.CodeType: co_code with index operands into co_names,             *)
(* co_varnames, co_consts, and jump operands that are instruction          *)
(* positions) and the abstract form the rewrite edits                      *)
(* (bytecode.Bytecode: a list of Instr and Label entries whose operands    *)
(* are the names, constants and Label objects themselves).  Positions are  *)
(* 1-based here and 0-based in the source.                                 *)
(***************************************************************************)
EXTENDS Integers, Sequences, FiniteSets, TLC

VARIABLES name,      \* the sentinel name given to enable_scan(name)
          func,      \* the function the decorator is applied to
          deco,      \* decorator(func)
          deco2,     \* decorator(decorator(func))
          phase,     \* "defined", "decorated", "decorated2"
          frame,     \* the running frame of a comprehension/genexpr code unit
          xs,        \* the input sequence the frame's ".0" iterator walks
          emitted,   \* the values appended/added/yielded so far, in order
          status,    \* "idle", "running", "returned" or the exception raised
          gen,       \* the generator object created by scan(...)
          out,       \* the values the consumer has received from gen
          calls      \* how many times the generator has called func

vars == <<name, func, deco, deco2, phase, frame, xs, emitted, status, gen, out, calls>>

rewriteVars == <<name, func, deco, deco2, phase>>
vmVars == <<frame, xs, emitted, status>>
scanVars == <<gen, out, calls>>

\* ---------------------------------------------------------------- bounds
MaxLen == 3        \* longest input sequence
MaxVal == 1        \* input elements are 0..MaxVal
MaxFilters == 2    \* most "if" clauses on the first for-clause

Vals == 0..MaxVal

RECURSIVE SeqsUpTo(_)
SeqsUpTo(n) ==
    IF n = 0 THEN {<<>>}
    ELSE LET shorter == SeqsUpTo(n - 1)
         IN shorter \cup {Append(s, v) : s \in {q \in shorter : Len(q) = n - 1}, v \in Vals}

Inputs == SeqsUpTo(MaxLen)

\* ------------------------------------------------- instructions and operands
Instr(op, arg) == [op |-> op, arg |-> arg]

\* Operands of the abstract form, tagged by their Python type.
Lbl(i) == [t |-> "label", v |-> i]
Nm(s) == [t |-> "str", v |-> s]
Cst(c) == [t |-> "const", v |-> c]
Imm(n) == [t |-> "int", v |-> n]
NoArg == [t |-> "unset", v |-> 0]

Label(i) == Instr("LABEL", Lbl(i))
IsLabel(e) == e.op = "LABEL"
IsInstr(e) == e.op # "LABEL"

\* Python's == between two operands: objects of different types are unequal.
PyEq(a, b) == a.t = b.t /\ a.v = b.v

JumpOps == {"FOR_ITER", "POP_JUMP_IF_FALSE", "POP_JUMP_IF_TRUE", "JUMP_ABSOLUTE"}
CondJumpOps == {"POP_JUMP_IF_FALSE", "POP_JUMP_IF_TRUE"}
HasName == {"LOAD_GLOBAL", "LOAD_ATTR"}
HasLocal == {"LOAD_FAST", "STORE_FAST"}
HasConst == {"LOAD_CONST"}
HasImm == {"BUILD_LIST", "BUILD_SET", "LIST_APPEND", "SET_ADD", "MAKE_FUNCTION", "CALL_FUNCTION"}

is_cond_jump(e) == e.op \in CondJumpOps

\* Constants of a constant pool: a literal or a nested code unit.
Lit(s) == [lit |-> s]
None == Lit("None")
IsCode(c) == "co_code" \in DOMAIN c

\* ----------------------------------------------------------- small helpers
InSeq(x, s) == \E i \in DOMAIN s : s[i] = x
IndexOf(x, s) == CHOOSE i \in DOMAIN s : s[i] = x
MaxOf(S) == CHOOSE m \in S : \A k \in S : k <= m
MinOf(S) == CHOOSE m \in S : \A k \in S : m <= k
Insert(s, i, x) == SubSeq(s, 1, i - 1) \o x \o SubSeq(s, i, Len(s))

\* The distinct elements of s in the order of their first use.
RECURSIVE Uniq(_)
Uniq(s) ==
    IF s = <<>> THEN <<>>
    ELSE LET r == Uniq(SubSeq(s, 1, Len(s) - 1))
         IN IF InSeq(s[Len(s)], r) THEN r ELSE Append(r, s[Len(s)])

OperandsOf(instrs, ops) ==
    LET used == SelectSeq(instrs, LAMBDA e : e.op \in ops)
    IN Uniq([i \in DOMAIN used |-> used[i].arg.v])

\* --------------------------------------- bytecode.Bytecode.from_code / to_code
JumpTargets(code) ==
    {code.co_code[i].arg : i \in {k \in DOMAIN code.co_code : code.co_code[k].op \in JumpOps}}

AbstractArg(code, ins) ==
    IF ins.op \in JumpOps THEN Lbl(ins.arg)
    ELSE IF ins.op \in HasName THEN Nm(code.co_names[ins.arg])
    ELSE IF ins.op \in HasLocal THEN Nm(code.co_varnames[ins.arg])
    ELSE IF ins.op \in HasConst THEN Cst(code.co_consts[ins.arg])
    ELSE IF ins.op \in HasImm THEN Imm(ins.arg)
    ELSE NoArg

RECURSIVE FromCodeFrom(_, _)
FromCodeFrom(code, i) ==
    IF i > Len(code.co_code) THEN <<>>
    ELSE (IF i \in JumpTargets(code) THEN <<Label(i)>> ELSE <<>>)
         \o <<Instr(code.co_code[i].op, AbstractArg(code, code.co_code[i]))>>
         \o FromCodeFrom(code, i + 1)

from_code(code) ==
    [name |-> code.co_name,
     argnames |-> SubSeq(code.co_varnames, 1, code.co_argcount),
     instrs |-> FromCodeFrom(code, 1)]

Stripped(instrs) == SelectSeq(instrs, IsInstr)

\* The position a Label resolves to: the instruction that follows the
\* label's last occurrence (labels[label] = len(instructions), last write wins).
LabelPos(instrs, l) ==
    LET at == {j \in DOMAIN instrs : IsLabel(instrs[j]) /\ instrs[j].arg.v = l}
    IN Len(Stripped(SubSeq(instrs, 1, MaxOf(at)))) + 1

ConcreteArg(bc, e, names, varnames, consts) ==
    IF e.op \in JumpOps THEN LabelPos(bc.instrs, e.arg.v)
    ELSE IF e.op \in HasName THEN IndexOf(e.arg.v, names)
    ELSE IF e.op \in HasLocal THEN IndexOf(e.arg.v, varnames)
    ELSE IF e.op \in HasConst THEN IndexOf(e.arg.v, consts)
    ELSE e.arg.v

to_code(bc) ==
    LET names == OperandsOf(bc.instrs, HasName)
        varnames == Uniq(bc.argnames \o OperandsOf(bc.instrs, HasLocal))
        consts == OperandsOf(bc.instrs, HasConst)
        body == Stripped(bc.instrs)
    IN [co_name |-> bc.name,
        co_argcount |-> Len(bc.argnames),
        co_names |-> names,
        co_varnames |-> varnames,
        co_consts |-> consts,
        co_code |-> [i \in DOMAIN body |->
                        Instr(body[i].op, ConcreteArg(bc, body[i], names, varnames, consts))]]

\* ------------------------------------------- _enable_scan_single_bytecode
\* Updates LOAD_GLOBAL to LOAD_FAST when arg is name.
LoadsRewritten(instrs, nm) ==
    [i \in DOMAIN instrs |->
        IF IsInstr(instrs[i]) /\ instrs[i].op = "LOAD_GLOBAL" /\ PyEq(instrs[i].arg, Nm(nm))
        THEN Instr("LOAD_FAST", Nm(nm))
        ELSE instrs[i]]

\* The first FOR_ITER and the entry before it.
for_idx(instrs) == MinOf({idx \in DOMAIN instrs : instrs[idx].op = "FOR_ITER"})
begin_label_idx(instrs) == for_idx(instrs) - 1

\* The positions the generator handed to last(...) yields: conditional jumps
\* whose operand (a Label object) compares equal to begin_label_idx (an int).
FilterJumps(instrs) ==
    {idx \in DOMAIN instrs :
        /\ IsInstr(instrs[idx])
        /\ is_cond_jump(instrs[idx])
        /\ PyEq(instrs[idx].arg, Imm(begin_label_idx(instrs)))}

\* A next(iterable) that drops everything but the last item.
last(S) == MaxOf(S)

\* try: last(...) except StopIteration: for_idx
filter_last_idx(instrs) ==
    IF FilterJumps(instrs) = {} THEN for_idx(instrs) ELSE last(FilterJumps(instrs))

heading_instructions(kind, nm) ==
    <<Instr("DUP_TOP", NoArg), Instr("STORE_FAST", Nm(nm))>>
    \o CASE kind = "<listcomp>" -> <<Instr("LIST_APPEND", Imm(2))>>
         [] kind = "<setcomp>" -> <<Instr("SET_ADD", Imm(2))>>
         [] kind = "<genexpr>" -> <<Instr("YIELD_VALUE", NoArg), Instr("POP_TOP", NoArg)>>

\* A prologue that also copies the entry at begin_label_idx.
WithHeadingFromLabel(instrs, kind, nm) ==
    Insert(instrs, begin_label_idx(instrs),
           SubSeq(instrs, begin_label_idx(instrs), filter_last_idx(instrs))
           \o heading_instructions(kind, nm))

\* bc[begin_label_idx:begin_label_idx] =
\*     copies of bc[for_idx:filter_last_idx + 1] + heading_instructions
WithHeading(instrs, kind, nm) ==
    Insert(instrs, begin_label_idx(instrs),
           SubSeq(instrs, for_idx(instrs), filter_last_idx(instrs))
           \o heading_instructions(kind, nm))

loop_instructions == {"SET_ADD", "LIST_APPEND", "YIELD_VALUE"}

\* The position of bc[ending_idx]: the last SET_ADD/LIST_APPEND/YIELD_VALUE.
ending_idx(instrs) ==
    MaxOf({idx \in DOMAIN instrs : IsInstr(instrs[idx]) /\ instrs[idx].op \in loop_instructions})

ending_instructions(nm) == <<Instr("DUP_TOP", NoArg), Instr("STORE_FAST", Nm(nm))>>

\* An epilogue placed after the emission instruction.
WithEndingAfter(instrs, nm) ==
    Insert(instrs, ending_idx(instrs) + 1, ending_instructions(nm))

\* An epilogue that is never inserted.
WithoutEnding(instrs, nm) == instrs

\* bc[ending_idx:ending_idx] = ending_instructions: the slice assignment puts
\* them in front of bc[ending_idx].
WithEnding(instrs, nm) ==
    Insert(instrs, ending_idx(instrs), ending_instructions(nm))

\* bc just before bc.to_code().
ScanBytecode(code, nm) ==
    LET bc == from_code(code)
    IN [bc EXCEPT !.instrs =
            WithEnding(WithHeading(LoadsRewritten(bc.instrs, nm), bc.name, nm), nm)]

_enable_scan_single_bytecode(code, nm) == to_code(ScanBytecode(code, nm))

\* ------------------------------------------------------------ _enable_scan
Transformable == {"<listcomp>", "<setcomp>", "<genexpr>"}

\* A test that ignores the referenced-name pool.
ShouldScanAnyName(code, nm) == code.co_name \in Transformable

\* name in code.co_names and code.co_name in {...}
ShouldScan(code, nm) == InSeq(nm, code.co_names) /\ code.co_name \in Transformable

code_mix(code, co_consts) == [code EXCEPT !.co_consts = co_consts]

RECURSIVE _enable_scan(_, _)
_enable_scan(code, nm) ==
    LET code1 == IF ShouldScan(code, nm) THEN _enable_scan_single_bytecode(code, nm) ELSE code
        consts == [idx \in DOMAIN code1.co_consts |->
                      IF IsCode(code1.co_consts[idx])
                      THEN _enable_scan(code1.co_consts[idx], nm)
                      ELSE code1.co_consts[idx]]
    IN IF consts = code1.co_consts THEN code1 ELSE code_mix(code1, consts)

\* ------------------------------------------- function_mix / types.FunctionType
\* The function object types.FunctionType(code, globals, name, argdefs, closure)
\* builds: the five arguments, and everything else as a fresh function of that
\* code has it (no keyword-only defaults, the qualified name and the docstring
\* taken from the code object).
FunctionType(code, globals, fname, defaults, closure) ==
    [code |-> code,
     globals |-> globals,
     name |-> fname,
     defaults |-> defaults,
     closure |-> closure,
     kwdefaults |-> <<>>,
     qualname |-> code.co_name,
     doc |-> IF Len(code.co_consts) >= 1 /\ ~IsCode(code.co_consts[1])
             THEN code.co_consts[1] ELSE None]

function_mix(f, code) == FunctionType(code, f.globals, f.name, f.defaults, f.closure)

\* decorator(func) of enable_scan(name)
decorator(f, nm) == function_mix(f, _enable_scan(f.code, nm))

\* ------------------------------------------------------- the inputs explored
\* The instruction streams CPython compiles comprehensions and generator
\* expressions to, over the iterator argument ".0" and the loop variable x:
\*   [body for x in .0 if x ... (for y in src)]
Kinds == Transformable
Clauses == {"none", "p", "ys"}

Opening(kind) ==
    CASE kind = "<listcomp>" -> <<Instr("BUILD_LIST", Imm(0))>>
      [] kind = "<setcomp>" -> <<Instr("BUILD_SET", Imm(0))>>
      [] kind = "<genexpr>" -> <<>>

Emission(kind, depth) ==
    CASE kind = "<listcomp>" -> <<Instr("LIST_APPEND", Imm(depth + 1))>>
      [] kind = "<setcomp>" -> <<Instr("SET_ADD", Imm(depth + 1))>>
      [] kind = "<genexpr>" -> <<Instr("YIELD_VALUE", NoArg), Instr("POP_TOP", NoArg)>>

Closing(kind) ==
    IF kind = "<genexpr>"
    THEN <<Instr("LOAD_CONST", Cst(None)), Instr("RETURN_VALUE", NoArg)>>
    ELSE <<Instr("RETURN_VALUE", NoArg)>>

RECURSIVE Filters(_)
Filters(n) ==
    IF n = 0 THEN <<>>
    ELSE <<Instr("LOAD_FAST", Nm("x")), Instr("POP_JUMP_IF_FALSE", Lbl(1))>> \o Filters(n - 1)

CompInstrs(kind, nfilters, body, clause) ==
    Opening(kind)
    \o <<Instr("LOAD_FAST", Nm(".0")), Label(1), Instr("FOR_ITER", Lbl(2)),
         Instr("STORE_FAST", Nm("x"))>>
    \o Filters(nfilters)
    \o (IF clause = "none"
        THEN body \o Emission(kind, 1) \o <<Instr("JUMP_ABSOLUTE", Lbl(1))>>
        ELSE <<Instr("LOAD_GLOBAL", Nm(clause)), Instr("GET_ITER", NoArg), Label(3),
               Instr("FOR_ITER", Lbl(4)), Instr("STORE_FAST", Nm("y"))>>
             \o body \o Emission(kind, 2)
             \o <<Instr("JUMP_ABSOLUTE", Lbl(3)), Label(4), Instr("JUMP_ABSOLUTE", Lbl(1))>>)
    \o <<Label(2)>> \o Closing(kind)

CompCode(kind, nfilters, body, clause) ==
    to_code([name |-> kind, argnames |-> <<".0">>,
             instrs |-> CompInstrs(kind, nfilters, body, clause)])

\* p + x
BodyPrev == <<Instr("LOAD_GLOBAL", Nm("p")), Instr("LOAD_FAST", Nm("x")), Instr("BINARY_ADD", NoArg)>>
\* x + x
BodyPlain == <<Instr("LOAD_FAST", Nm("x")), Instr("LOAD_FAST", Nm("x")), Instr("BINARY_ADD", NoArg)>>
\* x.p
BodyAttr == <<Instr("LOAD_FAST", Nm("x")), Instr("LOAD_ATTR", Nm("p"))>>
\* p + x.p
BodyPrevAttr ==
    <<Instr("LOAD_GLOBAL", Nm("p")), Instr("LOAD_FAST", Nm("x")), Instr("LOAD_ATTR", Nm("p")),
      Instr("BINARY_ADD", NoArg)>>
\* [p + x for x in x]: a nested comprehension, called on the loop variable
BodyNested ==
    <<Instr("LOAD_CONST", Cst(CompCode("<listcomp>", 0, BodyPrev, "none"))),
      Instr("LOAD_CONST", Cst(Lit("<listcomp>"))), Instr("MAKE_FUNCTION", Imm(0)),
      Instr("LOAD_FAST", Nm("x")), Instr("GET_ITER", NoArg), Instr("CALL_FUNCTION", Imm(1))>>

Bodies == {BodyPrev, BodyPlain, BodyAttr, BodyPrevAttr, BodyNested}

Comps ==
    {CompCode(kind, nfilters, body, clause) :
        kind \in Kinds, nfilters \in 0..MaxFilters, body \in Bodies, clause \in Clauses}

\* def f(xs): return <comprehension over xs>
FuncCode(comp, docstring) ==
    [co_name |-> "f",
     co_argcount |-> 1,
     co_names |-> <<>>,
     co_varnames |-> <<"xs">>,
     co_consts |-> <<docstring, comp, Lit("f.<locals>.<comp>")>>,
     co_code |-> <<Instr("LOAD_CONST", 2), Instr("LOAD_CONST", 3), Instr("MAKE_FUNCTION", 0),
                   Instr("LOAD_FAST", 1), Instr("GET_ITER", 0), Instr("CALL_FUNCTION", 1),
                   Instr("RETURN_VALUE", 0)>>]

\* A module-level function, and a method with a docstring, a default, a
\* keyword-only default and a closure cell.
PlainFunc(comp) ==
    [code |-> FuncCode(comp, None), globals |-> "module", name |-> "f", defaults |-> <<>>,
     closure |-> <<>>, kwdefaults |-> <<>>, qualname |-> "f", doc |-> None]

MethodFunc(comp) ==
    [code |-> FuncCode(comp, Lit("doc")), globals |-> "module", name |-> "f",
     defaults |-> <<1>>, closure |-> <<"cell">>, kwdefaults |-> <<"k">>,
     qualname |-> "C.f", doc |-> Lit("doc")]

Funcs == {PlainFunc(c) : c \in Comps} \cup {MethodFunc(c) : c \in Comps}

Names == {"p", "q"}

\* ------------------------------------------------------- run-time values
IntV(n) == [t |-> "int", v |-> n]
ListV(s) == [t |-> "list", v |-> s]
SetV(S) == [t |-> "set", v |-> S]
IterV == [t |-> "iterator", v |-> 0]
NoneV == [t |-> "NoneType", v |-> 0]
Unbound == [t |-> "unbound", v |-> 0]
Unset == [unset |-> TRUE]

Top(s) == s[Len(s)]
Pop(s) == SubSeq(s, 1, Len(s) - 1)

\* The module namespace the functions are defined in: the sentinel names are
\* bound nowhere, as in the powerset example.
ModuleGlobals == [n \in {"ys"} |-> ListV(<<>>)]

\* ------------------------------------------------------------- the decorator
InitRewrite ==
    /\ name \in Names
    /\ func \in Funcs
    /\ deco = Unset
    /\ deco2 = Unset
    /\ phase = "defined"

IdleVM ==
    /\ frame = Unset
    /\ xs = <<>>
    /\ emitted = <<>>
    /\ status = "idle"

IdleScan ==
    /\ gen = Unset
    /\ out = <<>>
    /\ calls = 0

Init == InitRewrite /\ IdleVM /\ IdleScan

\* func = enable_scan(name)(func)
Decorate ==
    /\ phase = "defined"
    /\ deco' = decorator(func, name)
    /\ phase' = "decorated"
    /\ UNCHANGED <<name, func, deco2>>
    /\ UNCHANGED vmVars
    /\ UNCHANGED scanVars

\* enable_scan(name) applied to the function it returned
DecorateAgain ==
    /\ phase = "decorated"
    /\ status = "idle"
    /\ deco2' = decorator(deco, name)
    /\ phase' = "decorated2"
    /\ UNCHANGED <<name, func, deco>>
    /\ UNCHANGED vmVars
    /\ UNCHANGED scanVars

\* ------------------------------------- running a comprehension's code unit
\* The comprehension of f, as a constant of its code.
CompOf(f) == f.code.co_consts[2]

VMOps ==
    {"BUILD_LIST", "BUILD_SET", "LOAD_FAST", "STORE_FAST", "LOAD_GLOBAL", "LOAD_ATTR",
     "LOAD_CONST", "BINARY_ADD", "DUP_TOP", "POP_TOP", "LIST_APPEND", "SET_ADD",
     "YIELD_VALUE", "FOR_ITER", "POP_JUMP_IF_FALSE", "JUMP_ABSOLUTE", "RETURN_VALUE"}

Runnable(code) == \A i \in DOMAIN code.co_code : code.co_code[i].op \in VMOps

\* The rewritten function is called: its comprehension runs over iter(input).
Call ==
    /\ phase = "decorated"
    /\ status = "idle"
    /\ Runnable(CompOf(deco))
    /\ \E input \in Inputs :
        /\ xs' = input
        /\ frame' = [code |-> CompOf(deco),
                     pc |-> 1,
                     stack |-> <<>>,
                     fast |-> [i \in DOMAIN CompOf(deco).co_varnames |->
                                  IF i = 1 THEN IterV ELSE Unbound],
                     it |-> 0,
                     ret |-> Unbound]
    /\ emitted' = <<>>
    /\ status' = "running"
    /\ UNCHANGED rewriteVars
    /\ UNCHANGED scanVars

cur == frame.code.co_code[frame.pc]

At(op) == status = "running" /\ cur.op = op

Goes(f) == frame' = f /\ UNCHANGED <<xs, emitted, status>> /\ UNCHANGED rewriteVars /\ UNCHANGED scanVars

Raises(exc) == status' = exc /\ UNCHANGED <<frame, xs, emitted>> /\ UNCHANGED rewriteVars /\ UNCHANGED scanVars

Emits(f, v) ==
    /\ frame' = f
    /\ emitted' = Append(emitted, v)
    /\ UNCHANGED <<xs, status>>
    /\ UNCHANGED rewriteVars
    /\ UNCHANGED scanVars

Pushed(v) == [frame EXCEPT !.stack = Append(@, v), !.pc = @ + 1]

BUILD_LIST == At("BUILD_LIST") /\ Goes(Pushed(ListV(<<>>)))

BUILD_SET == At("BUILD_SET") /\ Goes(Pushed(SetV({})))

LOAD_FAST ==
    /\ At("LOAD_FAST")
    /\ IF frame.fast[cur.arg].t = "unbound"
       THEN Raises("UnboundLocalError")
       ELSE Goes(Pushed(frame.fast[cur.arg]))

STORE_FAST ==
    /\ At("STORE_FAST")
    /\ Goes([frame EXCEPT !.fast[cur.arg] = Top(frame.stack), !.stack = Pop(@), !.pc = @ + 1])

LOAD_GLOBAL ==
    /\ At("LOAD_GLOBAL")
    /\ IF frame.code.co_names[cur.arg] \in DOMAIN ModuleGlobals
       THEN Goes(Pushed(ModuleGlobals[frame.code.co_names[cur.arg]]))
       ELSE Raises("NameError")

\* The values here are ints, lists and None: none has an attribute p or q.
LOAD_ATTR == At("LOAD_ATTR") /\ Raises("AttributeError")

LOAD_CONST == At("LOAD_CONST") /\ Goes(Pushed(Cst(frame.code.co_consts[cur.arg])))

BINARY_ADD ==
    /\ At("BINARY_ADD")
    /\ LET b == Top(frame.stack)
           a == Top(Pop(frame.stack))
       IN IF a.t = "int" /\ b.t = "int"
          THEN Goes([frame EXCEPT !.stack = Append(Pop(Pop(@)), IntV(a.v + b.v)), !.pc = @ + 1])
          ELSE Raises("TypeError")

DUP_TOP == At("DUP_TOP") /\ Goes(Pushed(Top(frame.stack)))

POP_TOP == At("POP_TOP") /\ Goes([frame EXCEPT !.stack = Pop(@), !.pc = @ + 1])

\* list.append(TOS1[-i], TOS), counted after TOS is popped
LIST_APPEND ==
    /\ At("LIST_APPEND")
    /\ LET v == Top(frame.stack)
           rest == Pop(frame.stack)
           at == Len(rest) - cur.arg + 1
       IN IF rest[at].t = "list"
          THEN Emits([frame EXCEPT !.stack = [rest EXCEPT ![at] = ListV(Append(@.v, v))],
                                   !.pc = @ + 1], v)
          ELSE Raises("SystemError")

SET_ADD ==
    /\ At("SET_ADD")
    /\ LET v == Top(frame.stack)
           rest == Pop(frame.stack)
           at == Len(rest) - cur.arg + 1
       IN IF rest[at].t = "set"
          THEN Emits([frame EXCEPT !.stack = [rest EXCEPT ![at] = SetV(@.v \cup {v})],
                                   !.pc = @ + 1], v)
          ELSE Raises("SystemError")

\* The consumer receives TOS and resumes the generator with next(): None is
\* what the yield expression evaluates to.
YIELD_VALUE ==
    /\ At("YIELD_VALUE")
    /\ Emits([frame EXCEPT !.stack = Append(Pop(@), NoneV), !.pc = @ + 1], Top(frame.stack))

FOR_ITER ==
    /\ At("FOR_ITER")
    /\ IF Top(frame.stack).t # "iterator"
       THEN Raises("TypeError")
       ELSE IF frame.it < Len(xs)
       THEN Goes([frame EXCEPT !.stack = Append(@, IntV(xs[frame.it + 1])),
                               !.it = @ + 1, !.pc = @ + 1])
       ELSE Goes([frame EXCEPT !.stack = Pop(@), !.pc = cur.arg])

POP_JUMP_IF_FALSE ==
    /\ At("POP_JUMP_IF_FALSE")
    /\ Goes([frame EXCEPT !.stack = Pop(@),
                          !.pc = IF Top(frame.stack) = IntV(0) THEN cur.arg ELSE @ + 1])

JUMP_ABSOLUTE == At("JUMP_ABSOLUTE") /\ Goes([frame EXCEPT !.pc = cur.arg])

RETURN_VALUE ==
    /\ At("RETURN_VALUE")
    /\ frame' = [frame EXCEPT !.ret = Top(frame.stack), !.stack = Pop(@)]
    /\ status' = "returned"
    /\ UNCHANGED <<xs, emitted>>
    /\ UNCHANGED rewriteVars
    /\ UNCHANGED scanVars

Next ==
    \/ Decorate
    \/ DecorateAgain
    \/ Call
    \/ BUILD_LIST
    \/ BUILD_SET
    \/ LOAD_FAST
    \/ STORE_FAST
    \/ LOAD_GLOBAL
    \/ LOAD_ATTR
    \/ LOAD_CONST
    \/ BINARY_ADD
    \/ DUP_TOP
    \/ POP_TOP
    \/ LIST_APPEND
    \/ SET_ADD
    \/ YIELD_VALUE
    \/ FOR_ITER
    \/ POP_JUMP_IF_FALSE
    \/ JUMP_ABSOLUTE
    \/ RETURN_VALUE

Spec == Init /\ [][Next]_vars

\* -------------------------------------------------------------------- scan
\* _EMPTY = object()
EMPTY == [t |-> "object", v |-> 0]

\* The binary operations handed to scan: a - b and 2 * a + b.
Ops == {"sub", "lin"}

Apply(f, a, b) == IF f = "sub" THEN IntV(a.v - b.v) ELSE IntV(2 * a.v + b.v)

\* The generator object scan(func, iterable, start, echo_start=...) returns:
\* no line of its body has run yet.  start is the local the body reassigns,
\* start_arg the argument as it was passed.
InitScan ==
    /\ \E f \in Ops, iterable \in Inputs, start \in {EMPTY} \cup {IntV(v) : v \in Vals},
          echo_start \in BOOLEAN :
        gen = [func |-> f, iterable |-> iterable, start_arg |-> start, start |-> start,
               echo_start |-> echo_start, it |-> 0, pc |-> "created"]
    /\ out = <<>>
    /\ calls = 0

IdleRewrite ==
    /\ name = "p"
    /\ func = Unset
    /\ deco = Unset
    /\ deco2 = Unset
    /\ phase = "defined"

ScanInit == InitScan /\ IdleRewrite /\ IdleVM

\* next(it), with a default instead of StopIteration.
scan_start_default(g) ==
    IF g.start # EMPTY THEN g
    ELSE IF g.it < Len(g.iterable)
    THEN [g EXCEPT !.start = IntV(g.iterable[g.it + 1]), !.it = @ + 1]
    ELSE [g EXCEPT !.start = IntV(0)]

\* it = iter(iterable); if start is _EMPTY: start = next(it)
\* pc "StopIteration": next(it) raised it inside the generator's body.
scan_start(g) ==
    IF g.start # EMPTY THEN g
    ELSE IF g.it < Len(g.iterable)
    THEN [g EXCEPT !.start = IntV(g.iterable[g.it + 1]), !.it = @ + 1]
    ELSE [g EXCEPT !.pc = "StopIteration"]

\* start = func(item, start)
scan_item_swapped(g) ==
    [g EXCEPT !.start = Apply(g.func, IntV(g.iterable[g.it + 1]), g.start),
              !.it = @ + 1, !.pc = "yield_item"]

\* for item in it: start = func(start, item); yield start
scan_item(g) ==
    [g EXCEPT !.start = Apply(g.func, g.start, IntV(g.iterable[g.it + 1])),
              !.it = @ + 1, !.pc = "yield_item"]

ScanGoes(g) == gen' = g /\ UNCHANGED <<out, calls>> /\ UNCHANGED rewriteVars /\ UNCHANGED vmVars

ScanYields(g) ==
    /\ gen' = g
    /\ out' = Append(out, g.start)
    /\ UNCHANGED rewriteVars
    /\ UNCHANGED vmVars

\* The first next(gen), when the start value is echoed: lines 179-183.
ScanFirstEcho ==
    /\ gen.pc = "created"
    /\ scan_start(gen).pc = "created"
    /\ gen.echo_start
    /\ ScanYields([scan_start(gen) EXCEPT !.pc = "yield_start"])
    /\ UNCHANGED calls

\* The first next(gen) when next(it) finds the iterable empty.  The
\* StopIteration leaves the generator's body: the interpreters before PEP 479
\* pass it on to the consumer, which takes it for the end of the sequence;
\* the later ones replace it by a RuntimeError.
ScanFirstStop ==
    /\ gen.pc = "created"
    /\ scan_start(gen).pc = "StopIteration"
    /\ \E outcome \in {"exhausted", "RuntimeError"} :
        ScanGoes([scan_start(gen) EXCEPT !.pc = outcome])

\* A next(gen) that reaches the yield of the loop: lines 184-186, entered
\* from the first next(gen) without echo or from a yield.
ScanItem ==
    /\ \/ gen.pc \in {"yield_start", "yield_item"}
       \/ gen.pc = "created" /\ scan_start(gen).pc = "created" /\ ~gen.echo_start
    /\ LET g == IF gen.pc = "created" THEN scan_start(gen) ELSE gen
       IN /\ g.it < Len(g.iterable)
          /\ ScanYields(scan_item(g))
          /\ calls' = calls + 1

\* A next(gen) that finds the iterator exhausted: the generator returns.
ScanEnd ==
    /\ \/ gen.pc \in {"yield_start", "yield_item"}
       \/ gen.pc = "created" /\ scan_start(gen).pc = "created" /\ ~gen.echo_start
    /\ LET g == IF gen.pc = "created" THEN scan_start(gen) ELSE gen
       IN /\ g.it >= Len(g.iterable)
          /\ ScanGoes([g EXCEPT !.pc = "exhausted"])

ScanNext ==
    \/ ScanFirstEcho
    \/ ScanFirstStop
    \/ ScanItem
    \/ ScanEnd

SpecScan == ScanInit /\ [][ScanNext]_vars

\* ===================================================================
\* Properties
\* ===================================================================
RefsSentinel(code, nm) ==
    \E i \in DOMAIN code.co_code :
        code.co_code[i].op = "LOAD_GLOBAL" /\ code.co_names[code.co_code[i].arg] = nm

Filterless(code) == \A i \in DOMAIN code.co_code : code.co_code[i].op \notin CondJumpOps

\* The decorator has returned and the function it returned is not running.
Decorated == phase # "defined" /\ status = "idle"

RECURSIVE Units(_)
Units(code) ==
    {code} \cup UNION {Units(code.co_consts[i]) :
                          i \in {k \in DOMAIN code.co_consts : IsCode(code.co_consts[k])}}

\* The rewritten stream of a filterless comprehension whose body loads the
\* sentinel is running, or has run.
C1Case ==
    /\ status # "idle"
    /\ Filterless(CompOf(func))
    /\ RefsSentinel(CompOf(func), name)

ReadsSentinel ==
    /\ status = "running"
    /\ cur.op = "LOAD_FAST"
    /\ frame.code.co_varnames[cur.arg] = name

\* C1: for a list comprehension, set comprehension or generator expression
\* without filters whose body references the sentinel, the rewritten stream
\* emits nothing over an empty input; over a non-empty input the first value
\* emitted is xs[0] itself, and whenever the body reads the sentinel (which it
\* does from the second iteration on) the sentinel's local slot holds the
\* value the previous iteration emitted.
C1_FirstEchoedThenPrevious ==
    C1Case =>
        /\ xs = <<>> => emitted = <<>>
        /\ emitted # <<>> => emitted[1] = IntV(xs[1])
        /\ (status = "returned" /\ xs # <<>>) => emitted # <<>>
        /\ ReadsSentinel =>
              /\ frame.it >= 2
              /\ Len(emitted) = frame.it - 1
              /\ frame.fast[cur.arg] = emitted[frame.it - 1]

C1_Witness ==
    /\ C1Case
    /\ status = "returned"
    /\ frame.code.co_name = "<genexpr>"
    /\ Len(xs) = 3
    /\ emitted = <<IntV(xs[1]), IntV(xs[1] + xs[2]), IntV(xs[1] + xs[2] + xs[3])>>
    /\ xs[2] # 0

\* The generator was created by scan(f, xs) with start unset and echo_start
\* true, over a sequence of length >= 1.
C2Case ==
    /\ gen.start_arg = EMPTY
    /\ gen.echo_start
    /\ Len(gen.iterable) >= 1

\* C2: scan(f, xs) with start unset and echo_start true, for len(xs) >= 1,
\* yields xs[0] first and then f(result[k-1], xs[k]) for each k >= 1, and is
\* exhausted after exactly len(xs) values.
C2_ScanRecurrence ==
    C2Case =>
        /\ Len(out) <= Len(gen.iterable)
        /\ out # <<>> => out[1] = IntV(gen.iterable[1])
        /\ \A k \in 2..Len(out) : out[k] = Apply(gen.func, out[k - 1], IntV(gen.iterable[k]))
        /\ gen.pc \in {"created", "yield_start", "yield_item", "exhausted"}
        /\ gen.pc = "exhausted" => Len(out) = Len(gen.iterable)

C2_Witness ==
    /\ C2Case
    /\ gen.pc = "exhausted"
    /\ gen.func = "sub"
    /\ Len(out) = 3
    /\ out[3] # out[2]

\* scan was called with start unset on an iterable that yields nothing, and
\* the consumer has asked for the first value.
C3Case ==
    /\ gen.start_arg = EMPTY
    /\ gen.iterable = <<>>
    /\ gen.pc # "created"

\* C3 as claimed: scan with start unset over an empty iterable fails with an
\* error surfaced to the caller and does not end normally with an empty
\* result.
C3_EmptyRaises == C3Case => gen.pc \notin {"exhausted", "yield_start", "yield_item"}

\* C3 as amended: scan with start unset over an empty iterable yields no
\* value and never calls func; the StopIteration of next(it) leaves the
\* generator's body, which the consumer sees as the plain end of the sequence
\* (an empty result) or, under PEP 479, as a RuntimeError.
C3_EmptyYieldsNothing ==
    C3Case =>
        /\ out = <<>>
        /\ calls = 0
        /\ gen.pc \in {"exhausted", "RuntimeError"}

C3_Witness == C3Case /\ gen.pc = "exhausted" /\ out = <<>>

RECURSIVE Absent(_, _)
Absent(nm, code) ==
    /\ ~InSeq(nm, code.co_names)
    /\ \A i \in DOMAIN code.co_consts :
          IsCode(code.co_consts[i]) => Absent(nm, code.co_consts[i])

\* C4: when the sentinel name is in the co_names of no code unit of the
\* function (its own code or any code nested in the constant pools), the code
\* of the function enable_scan returns equals the original's, nested code
\* units included.
C4_AbsentNameNoOp ==
    (Decorated /\ Absent(name, func.code)) => deco.code = func.code

C4_Witness ==
    /\ phase = "decorated"
    /\ Absent(name, func.code)
    /\ deco.code = func.code
    /\ \E i \in DOMAIN CompOf(func).co_consts : IsCode(CompOf(func).co_consts[i])
    /\ ~Filterless(CompOf(func))

\* C5 as claimed: a second application of enable_scan with the same name
\* returns a body equal to the result of the first.
C5_SecondPassNoOp == phase = "decorated2" => deco2.code = deco.code

\* The comprehension takes the sentinel as the source of a for-clause.
IteratesOver(code, nm) ==
    \E i \in DOMAIN code.co_code :
        /\ code.co_code[i].op = "LOAD_GLOBAL"
        /\ code.co_names[code.co_code[i].arg] = nm
        /\ i + 1 \in DOMAIN code.co_code
        /\ code.co_code[i + 1].op = "GET_ITER"

\* C6 as claimed: a comprehension or generator expression that iterates over
\* the sentinel name is left unchanged by enable_scan.
C6_IteratedSentinelUnchanged ==
    (Decorated /\ IteratesOver(CompOf(func), name)) => CompOf(deco) = CompOf(func)

\* C7 as claimed: the function enable_scan returns has the globals, name,
\* defaults, keyword-only defaults, closure, qualified name and documentation
\* of the original.
C7_AttributesPreserved ==
    Decorated =>
        /\ deco.globals = func.globals
        /\ deco.name = func.name
        /\ deco.defaults = func.defaults
        /\ deco.closure = func.closure
        /\ deco.kwdefaults = func.kwdefaults
        /\ deco.qualname = func.qualname
        /\ deco.doc = func.doc

\* The comprehension of func is one enable_scan rewrites.
Rewritten == Decorated /\ ShouldScan(CompOf(func), name)

\* The instruction model of the comprehension when the locator reads it.
Located == LoadsRewritten(from_code(CompOf(func)).instrs, name)

\* The conditional jumps whose target is the loop-start label.
JumpsToLoopStart(instrs) ==
    {idx \in DOMAIN instrs :
        /\ is_cond_jump(instrs[idx])
        /\ PyEq(instrs[idx].arg, instrs[begin_label_idx(instrs)].arg)}

\* C8 as claimed: the filter-chain end is the position of the highest
\* conditional jump to the loop-start label, and the position of the first
\* FOR_ITER only when there is no such jump.
C8_FilterChainEnd ==
    Rewritten =>
        filter_last_idx(Located) =
            IF JumpsToLoopStart(Located) = {}
            THEN for_idx(Located)
            ELSE MaxOf(JumpsToLoopStart(Located))

\* The position of the last emission instruction of a compiled stream.
LastEmission(code) ==
    MaxOf({i \in DOMAIN code.co_code : code.co_code[i].op \in loop_instructions})

IsEpilogue(code, i) ==
    /\ i \in DOMAIN code.co_code
    /\ i + 1 \in DOMAIN code.co_code
    /\ code.co_code[i].op = "DUP_TOP"
    /\ code.co_code[i + 1].op = "STORE_FAST"
    /\ code.co_varnames[code.co_code[i + 1].arg] = name

\* C9 as claimed: in the result, the last emission instruction directly
\* precedes the two epilogue instructions.
C9_EpilogueAfterEmission ==
    Rewritten => IsEpilogue(CompOf(deco), LastEmission(CompOf(deco)) + 1)

\* C9 as amended: the epilogue (DUP_TOP, STORE_FAST of the sentinel) is
\* inserted immediately before the last LIST_APPEND / SET_ADD / YIELD_VALUE
\* of the instruction model: in the result the two epilogue instructions
\* directly precede that emission instruction, which is followed by the
\* instruction that followed it in the original.
C9_EpilogueBeforeEmission ==
    Rewritten =>
        /\ IsEpilogue(CompOf(deco), LastEmission(CompOf(deco)) - 2)
        /\ CompOf(deco).co_code[LastEmission(CompOf(deco)) + 1].op
              = CompOf(func).co_code[LastEmission(CompOf(func)) + 1].op

C9_Witness ==
    /\ Rewritten
    /\ phase = "decorated"
    /\ CompOf(deco).co_name = "<genexpr>"
    /\ IsEpilogue(CompOf(deco), LastEmission(CompOf(deco)) - 2)

RECURSIVE IsSubseq(_, _)
IsSubseq(s, t) ==
    IF s = <<>> THEN TRUE
    ELSE IF t = <<>> THEN FALSE
    ELSE IF Head(s) = Head(t) THEN IsSubseq(Tail(s), Tail(t))
    ELSE IsSubseq(s, Tail(t))

LabelIds(instrs) == {instrs[j].arg.v : j \in {k \in DOMAIN instrs : IsLabel(instrs[k])}}

LabelsResolve(instrs) ==
    /\ \A i \in DOMAIN instrs :
          instrs[i].op \in JumpOps =>
              Cardinality({j \in DOMAIN instrs :
                              IsLabel(instrs[j]) /\ instrs[j].arg.v = instrs[i].arg.v}) = 1
    /\ \A i, j \in DOMAIN instrs :
          (IsLabel(instrs[i]) /\ IsLabel(instrs[j]) /\ instrs[i].arg.v = instrs[j].arg.v)
              => i = j

\* C10: after the prologue and epilogue insertions, in every code unit the
\* rewrite applies to (with or without filters, nested or not), every jump
\* operand resolves to exactly one label of the instruction model, no label
\* is duplicated or lost, and the original entries keep their relative order.
C10_LabelsAndOrderKept ==
    Decorated =>
        \A u \in Units(func.code) :
            ShouldScan(u, name) =>
                /\ LabelsResolve(ScanBytecode(u, name).instrs)
                /\ LabelIds(ScanBytecode(u, name).instrs) = LabelIds(from_code(u).instrs)
                /\ IsSubseq(LoadsRewritten(from_code(u).instrs, name),
                            ScanBytecode(u, name).instrs)

C10_Witness ==
    /\ phase = "decorated"
    /\ Rewritten
    /\ ~Filterless(CompOf(func))
    /\ Cardinality(LabelIds(ScanBytecode(CompOf(func), name).instrs)) = 4
    /\ CompOf(deco) # CompOf(func)

====
